---- MODULE Spec2Model ----
(***************************************************************************)
(* Model of processTestInfra                                               *)
(* (kinder/ci/tools/update-workflows/pkg/testinfra.go).                    *)
(*                                                                         *)
(* Text is a sequence of tokens.  Every token stands for one fixed string  *)
(* (a character such as "\n", " ", "." or "y", or a word such as           *)
(* "periodics:" or a version "1.30"); the text is the concatenation of its *)
(* tokens.  No word token contains part of the suffix ".yaml", a space, a  *)
(* newline or a double quote, so suffix, indentation and line operations   *)
(* on tokens agree with the same operations on the characters.             *)
(*                                                                         *)
(* A path is a record [abs, comps]: whether it starts with "/" and its     *)
(* components.  The empty string is the relative path without components.  *)
(***************************************************************************)
EXTENDS Integers, Sequences, FiniteSets, TLC

VARIABLES
    settings,          \* *Settings argument (only read)
    cfg,               \* *jobGroup argument (only read)
    oldestVer,         \* oldest tracked version (minor number)
    minVer,            \* minimum supported version (minor number)
    fs,                \* the file system: path -> [exists, data]
    fs0,               \* the file system when the call started
    pc,                \* position in processTestInfra
    err,               \* the error returned ("nil" for success)
    errMsg,            \* the message of a wrapped error
    tPath,             \* local tPath
    tBytes,            \* local tBytes
    templateJob,       \* local templateJob (parsed template)
    templateFileName,  \* local templateFileName (parsed template)
    str,               \* local str, the accumulated document
    idx,               \* 1-based index of the loop over cfg.Jobs
    vars,              \* local vars (templateVars)
    buf,               \* local buf (bytes.Buffer)
    failures,          \* local failures
    staleResults,      \* local staleResults
    log                \* history: the library calls made so far

allVars == <<settings, cfg, oldestVer, minVer, fs, fs0, pc, err, errMsg, tPath,
             tBytes, templateJob, templateFileName, str, idx, vars, buf,
             failures, staleResults, log>>

-----------------------------------------------------------------------------
(* Bounds *)

MaxJobs == 2

-----------------------------------------------------------------------------
(* Sequences helpers *)

Range(s) == {s[k] : k \in 1..Len(s)}

HasSuffix(s, suffix) ==
    /\ Len(s) >= Len(suffix)
    /\ SubSeq(s, Len(s) - Len(suffix) + 1, Len(s)) = suffix

HasPrefix(s, prefix) ==
    /\ Len(s) >= Len(prefix)
    /\ SubSeq(s, 1, Len(prefix)) = prefix

Contains(s, sub) ==
    \E k \in 0..(Len(s) - Len(sub)) : SubSeq(s, k + 1, k + Len(sub)) = sub

SeqsUpTo(S, n) == UNION {[1..k -> S] : k \in 0..n}

-----------------------------------------------------------------------------
(* Paths: path.IsAbs, path.Base, filepath.Dir, filepath.Join *)

Path(abs, comps) == [abs |-> abs, comps |-> comps]

EmptyPath == Path(FALSE, <<>>)

IsAbs(p) == p.abs

\* filepath.Dir: everything but the last element ("." when nothing is left,
\* which joins like the empty path).
Dir(p) ==
    IF Len(p.comps) = 0 THEN p
    ELSE Path(p.abs, SubSeq(p.comps, 1, Len(p.comps) - 1))

\* path.Base: the last element; "." for the empty path, "/" for the root.
Base(p) ==
    IF Len(p.comps) = 0 THEN p
    ELSE Path(FALSE, <<p.comps[Len(p.comps)]>>)

\* filepath.Join of two elements: empty elements are ignored, the result is
\* cleaned (a "/" opening the second element is absorbed).
Join(a, b) ==
    IF a = EmptyPath THEN b
    ELSE Path(a.abs, a.comps \o b.comps)

RECURSIVE JoinComps(_)
JoinComps(comps) ==
    IF Len(comps) = 0 THEN <<>>
    ELSE IF Len(comps) = 1 THEN <<comps[1]>>
    ELSE <<comps[1], "/">> \o JoinComps(Tail(comps))

\* the string a path stands for
PathText(p) == (IF p.abs THEN <<"/">> ELSE <<>>) \o JoinComps(p.comps)

-----------------------------------------------------------------------------
(* Versions and the helpers of the package that live outside testinfra.go *)

latestVersion == "latest"

\* the minor number of a pinned version string
VersionMinor == [v \in {"1.28", "1.30"} |-> IF v = "1.28" THEN 28 ELSE 30]

\* skipVersion(oldestVer, minVer, ver): the sentinel is newer than every
\* pinned version and is never skipped; a pinned version is skipped when it
\* is older than the oldest tracked or than the minimum supported version.
skipVersion(oldest, minimum, ver) ==
    /\ ver # latestVersion
    /\ \/ VersionMinor[ver] < oldest
       \/ VersionMinor[ver] < minimum

\* the fixed comment block opening every generated file
autogeneratedHeader == <<"# AUTOGENERATED by update-workflows, DO NOT EDIT">>

\* dashVer: the version with its dots replaced by dashes
dashVer(text) ==
    [k \in 1..Len(text) |->
        CASE text[k] = "1.28" -> "1-28"
          [] text[k] = "1.30" -> "1-30"
          [] text[k] = "."    -> "-"
          [] OTHER            -> text[k]]

-----------------------------------------------------------------------------
(* text/template: Parse and Execute *)

\* the functions bound into the job template
FuncMap == {"dashVer", "ciLabelFor", "imageVer", "branchFor", "sigReleaseVer"}

\* the field a ".Field" token of a template refers to
DotField ==
    [t \in {".KubernetesVersion", ".KubeadmVersion", ".KubeletVersion",
            ".InitVersion", ".UpgradeVersion", ".TargetFile", ".TestInfraImage",
            ".WorkflowFile", ".JobInterval", ".AlertAnnotations", ".Bogus"} |->
        CASE t = ".KubernetesVersion" -> "KubernetesVersion"
          [] t = ".KubeadmVersion"    -> "KubeadmVersion"
          [] t = ".KubeletVersion"    -> "KubeletVersion"
          [] t = ".InitVersion"       -> "InitVersion"
          [] t = ".UpgradeVersion"    -> "UpgradeVersion"
          [] t = ".TargetFile"        -> "TargetFile"
          [] t = ".TestInfraImage"    -> "TestInfraImage"
          [] t = ".WorkflowFile"      -> "WorkflowFile"
          [] t = ".JobInterval"       -> "JobInterval"
          [] t = ".AlertAnnotations"  -> "AlertAnnotations"
          [] OTHER                    -> "Bogus"]

\* the string a quoted literal of a template denotes
StringLiteral == [t \in {"\"latest\""} |-> <<"latest">>]

Node(kind, a, b) == [kind |-> kind, a |-> a, b |-> b]

ParseError == [ok |-> FALSE, nodes |-> <<>>]

\* the position of the first token tok from token j on, 0 when there is none
RECURSIVE FirstToken(_, _, _)
FirstToken(text, tok, j) ==
    IF j > Len(text) THEN 0
    ELSE IF text[j] = tok THEN j
    ELSE FirstToken(text, tok, j + 1)

\* the node of the action between "{{" and "}}", of kind "bad" when the
\* action is malformed, calls an unknown function or is a stray {{end}}
ActionNode(action, funcs, depth) ==
    IF Len(action) = 1 /\ action[1] \in DOMAIN DotField THEN
        Node("field", DotField[action[1]], "")
    ELSE IF Len(action) = 2 /\ action[1] \in funcs /\ action[2] \in DOMAIN DotField THEN
        Node("call", action[1], DotField[action[2]])
    ELSE IF Len(action) = 4 /\ action[1] = "if" /\ action[2] = "eq"
            /\ action[3] \in DOMAIN DotField /\ action[4] \in DOMAIN StringLiteral THEN
        Node("if", DotField[action[3]], action[4])
    ELSE IF action = <<"end">> /\ depth > 0 THEN
        Node("end", "", "")
    ELSE Node("bad", "", "")

\* Parse from token k on; depth counts the {{if}} blocks still open.  The
\* text up to the next "{{" is one text node.  Errors: an action that is not
\* closed, an unknown function, an {{end}} without {{if}}, an {{if}} without
\* {{end}}, a malformed action.
RECURSIVE ParseFrom(_, _, _, _, _)
ParseFrom(text, k, funcs, depth, acc) ==
    IF k > Len(text) THEN
        IF depth = 0 THEN [ok |-> TRUE, nodes |-> acc] ELSE ParseError
    ELSE IF text[k] # "{{" THEN
        LET o == FirstToken(text, "{{", k)
            stop == IF o = 0 THEN Len(text) + 1 ELSE o
        IN ParseFrom(text, stop, funcs, depth,
                     Append(acc, Node("text", SubSeq(text, k, stop - 1), "")))
    ELSE
        LET c == FirstToken(text, "}}", k + 1) IN
        IF c = 0 THEN ParseError
        ELSE
            LET n == ActionNode(SubSeq(text, k + 1, c - 1), funcs, depth) IN
            IF n.kind = "bad" THEN ParseError
            ELSE ParseFrom(text, c + 1, funcs,
                           CASE n.kind = "if"  -> depth + 1
                             [] n.kind = "end" -> depth - 1
                             [] OTHER          -> depth,
                           Append(acc, n))

\* template.New(name).Funcs(funcs).Parse(text)
Parse(text, funcs) == ParseFrom(text, 1, funcs, 0, <<>>)

\* a function of FuncMap applied to a string
ApplyFunc(fn, arg) ==
    IF fn = "dashVer" THEN dashVer(arg)
    ELSE <<fn, "(">> \o arg \o <<")">>

\* Execute from node k on; skip counts the enclosing {{if}} blocks whose
\* condition is false.  A field that templateVars does not have is an
\* error once it is evaluated; the output written so far stays in out.
RECURSIVE ExecuteFrom(_, _, _, _, _)
ExecuteFrom(nodes, k, data, out, skip) ==
    IF k > Len(nodes) THEN [ok |-> TRUE, out |-> out]
    ELSE
        LET n == nodes[k] IN
        IF n.kind = "end" THEN
            ExecuteFrom(nodes, k + 1, data, out, IF skip > 0 THEN skip - 1 ELSE 0)
        ELSE IF skip > 0 THEN
            ExecuteFrom(nodes, k + 1, data, out, IF n.kind = "if" THEN skip + 1 ELSE skip)
        ELSE IF n.kind = "text" THEN
            ExecuteFrom(nodes, k + 1, data, out \o n.a, 0)
        ELSE IF n.kind = "field" THEN
            IF n.a \in DOMAIN data
            THEN ExecuteFrom(nodes, k + 1, data, out \o data[n.a], 0)
            ELSE [ok |-> FALSE, out |-> out]
        ELSE IF n.kind = "call" THEN
            IF n.b \in DOMAIN data
            THEN ExecuteFrom(nodes, k + 1, data, out \o ApplyFunc(n.a, data[n.b]), 0)
            ELSE [ok |-> FALSE, out |-> out]
        ELSE \* "if"
            IF n.a \in DOMAIN data
            THEN ExecuteFrom(nodes, k + 1, data, out,
                             IF data[n.a] = StringLiteral[n.b] THEN 0 ELSE 1)
            ELSE [ok |-> FALSE, out |-> out]

\* (*Template).Execute(&buf, data), writing after what buf already holds
Execute(nodes, data, into) == ExecuteFrom(nodes, 1, data, into, 0)

-----------------------------------------------------------------------------
(* sigs.k8s.io/yaml: Unmarshal into an empty struct accepts every document *)
(* that is well-formed.  Over the tokens of this model the documents that  *)
(* are not well-formed are those whose flow brackets do not balance.       *)

\* every "]" closes a "[" before it, and every "[" is closed
FlowBalanced(text) ==
    LET opens == {k \in 1..Len(text) : text[k] = "["}
        closes == {k \in 1..Len(text) : text[k] = "]"}
    IN
    /\ Cardinality(opens) = Cardinality(closes)
    /\ \A c \in closes :
          Cardinality({o \in opens : o < c}) >= Cardinality({d \in closes : d <= c})

\* yaml.Unmarshal(text, struct{}{}) returns no error
YamlUnmarshalOk(text) == FlowBalanced(text)

\* the text of the error yaml.Unmarshal returns
yamlErrorText == <<"error converting YAML to JSON">>

-----------------------------------------------------------------------------
(* fmt.Sprintf("%d"), strings.TrimSuffix *)

Digit == [d \in 0..9 |->
    CASE d = 0 -> "0" [] d = 1 -> "1" [] d = 2 -> "2" [] d = 3 -> "3"
      [] d = 4 -> "4" [] d = 5 -> "5" [] d = 6 -> "6" [] d = 7 -> "7"
      [] d = 8 -> "8" [] OTHER -> "9"]

\* %d of a number that is not negative
RECURSIVE FormatInt(_)
FormatInt(n) ==
    IF n < 10 THEN <<Digit[n]>>
    ELSE FormatInt(n \div 10) \o <<Digit[n % 10]>>

TrimSuffix(s, suffix) ==
    IF HasSuffix(s, suffix) THEN SubSeq(s, 1, Len(s) - Len(suffix)) ELSE s

yamlSuffix == <<".", "y", "a", "m", "l">>

-----------------------------------------------------------------------------
(* The inputs a call is given *)

Job(k8s, kubeadm, kubelet, init, upgrade) ==
    [KubernetesVersion |-> k8s, KubeadmVersion |-> kubeadm,
     KubeletVersion |-> kubelet, InitVersion |-> init, UpgradeVersion |-> upgrade]

JobEntries ==
    { Job("latest", "1.30", "1.30", "1.30", "1.30"),
      Job("1.30", "latest", "1.30", "1.30", "1.30"),
      Job("1.30", "1.30", "1.30", "1.28", "1.30"),
      Job("1.28", "1.30", "latest", "latest", "latest") }

\* contents of the job template file
JobTemplateOK ==
    <<"- name: ", "job-", "{{", "dashVer", ".KubernetesVersion", "}}", "\n",
      "  interval: ", "{{", ".JobInterval", "}}", "\n",
      "  workflow: ", "{{", ".WorkflowFile", "}}", "\n",
      "  annotations:", "\n", "{{", ".AlertAnnotations", "}}", "\n">>

JobTemplateUnclosed ==
    <<"- name: ", "{{", ".KubernetesVersion", "\n">>

JobTemplateFailsOnLatest ==
    <<"- name: ", "{{", ".KubeadmVersion", "}}", "\n",
      "{{", "if", "eq", ".KubernetesVersion", "\"latest\"", "}}",
      "  image: ", "{{", ".Bogus", "}}", "\n", "{{", "end", "}}">>

JobTemplateBadYaml ==
    <<"- name: ", "{{", ".KubernetesVersion", "}}", "\n",
      "  args: ", "[", "{{", ".TestInfraImage", "}}", "\n">>

JobTemplates ==
    {JobTemplateOK, JobTemplateUnclosed, JobTemplateFailsOnLatest, JobTemplateBadYaml}

\* values of cfg.KinderWorkflowSpec.TargetFile, the file-name pattern
FileNamePatterns ==
    { <<"w", "-", "{{", ".KubernetesVersion", "}}", ".", "y", "a", "m", "l">>,
      <<"w", ".", "y", "a", "m", "l", ".", "y", "a", "m", "l">>,
      <<"w", "-", "{{", ".KubeadmVersion", "}}", ".", "y", "m", "l">>,
      <<"w", "-", "{{", ".Bogus", "}}", ".", "y", "a", "m", "l">>,
      <<"w", "-", "{{", "dashVer", ".KubernetesVersion", "}}">> }

ConfigPath == Path(FALSE, <<"cfg", "config.yaml">>)

\* values of cfg.TestInfraJobSpec.Template
TemplateRefs ==
    {EmptyPath, Path(FALSE, <<"jobs.yaml">>), Path(TRUE, <<"tpl", "job.tmpl">>)}

\* values of cfg.TestInfraJobSpec.TargetFile
TargetFiles == {Path(FALSE, <<"d", "jobs.yaml">>)}

\* values of settings.PathTestInfra
OutDirs == {Path(FALSE, <<"out">>), Path(FALSE, <<"cfg">>)}

\* the paths that can hold a regular file; every other path is a directory
FilePaths ==
    { ConfigPath,
      Path(FALSE, <<"cfg", "jobs.yaml">>),
      Path(TRUE, <<"tpl", "job.tmpl">>),
      Path(FALSE, <<"out", "jobs.yaml">>),
      Path(FALSE, <<"out", "d", "jobs.yaml">>),
      Path(FALSE, <<"cfg", "d", "jobs.yaml">>) }

File(data) == [exists |-> TRUE, data |-> data]

NoFile == [exists |-> FALSE, data |-> <<>>]

\* the file system before the call: the template file holds tc, an earlier
\* output exists in the directory out and none in the directory cfg
InitialFiles(tp, tc) ==
    [p \in FilePaths |->
        IF p = tp THEN tc
        ELSE IF p = ConfigPath THEN File(<<"jobGroups:", "\n">>)
        ELSE IF p = Path(TRUE, <<"tpl", "job.tmpl">>) THEN File(JobTemplateOK)
        ELSE IF p = Path(FALSE, <<"out", "jobs.yaml">>) THEN File(<<"old", "\n">>)
        ELSE NoFile]

-----------------------------------------------------------------------------
(* The pieces of processTestInfra *)

\* tPath: the template reference, resolved against the directory of the
\* configuration file when it is relative
TemplatePath(s, c) ==
    IF ~IsAbs(c.TestInfraJobSpec.Template)
    THEN Join(Dir(s.PathConfig), c.TestInfraJobSpec.Template)
    ELSE c.TestInfraJobSpec.Template

\* the document before the first job
InitialDocument == autogeneratedHeader \o <<"\n", "periodics:", "\n">>

\* the zero value of templateVars
ZeroVars ==
    [KubernetesVersion |-> <<>>, KubeadmVersion |-> <<>>, KubeletVersion |-> <<>>,
     InitVersion |-> <<>>, UpgradeVersion |-> <<>>, TargetFile |-> <<>>,
     TestInfraImage |-> <<>>, WorkflowFile |-> <<>>, JobInterval |-> <<>>,
     AlertAnnotations |-> <<>>]

\* vars as first built for a job
BaseVars(job, s, c) ==
    [ZeroVars EXCEPT
        !.KubernetesVersion = <<job.KubernetesVersion>>,
        !.KubeadmVersion = <<job.KubeadmVersion>>,
        !.KubeletVersion = <<job.KubeletVersion>>,
        !.InitVersion = <<job.InitVersion>>,
        !.UpgradeVersion = <<job.UpgradeVersion>>,
        !.TargetFile = PathText(c.TestInfraJobSpec.TargetFile),
        !.TestInfraImage = s.ImageTestInfra]

\* mutant: the filter is given the kubeadm version
JobVersion_Kubeadm(job) == job.KubeadmVersion

\* the version of a job that is handed to skipVersion
JobVersion(job) == job.KubernetesVersion

\* mutant: the suffix is not stripped
WorkflowFileOf_NoTrim(name) == <<"\"">> \o name \o <<"\"">>

\* vars.WorkflowFile from the rendered file name
WorkflowFileOf(name) == <<"\"">> \o TrimSuffix(name, yamlSuffix) \o <<"\"">>

\* mutant: any version of the job being the sentinel selects the policy
UsesLatestPolicy_AnyVersion(job) ==
    \/ job.KubernetesVersion = latestVersion
    \/ job.KubeadmVersion = latestVersion
    \/ job.KubeletVersion = latestVersion
    \/ job.InitVersion = latestVersion
    \/ job.UpgradeVersion = latestVersion

\* the condition selecting the period and alerts of the moving release
UsesLatestPolicy(job) ==
    job.KubernetesVersion = latestVersion \/ job.KubeadmVersion = latestVersion

JobIntervalOf(job) == IF UsesLatestPolicy(job) THEN <<"2h">> ELSE <<"12h">>

FailuresOf(job) == IF UsesLatestPolicy(job) THEN 8 ELSE 4

StaleResultsOf(job) == IF UsesLatestPolicy(job) THEN 16 ELSE 48

\* mutant: the block ends with a newline
AlertAnnotationsOf_TrailingNewline(f, st) ==
    <<" ", " ", " ", " ", "testgrid-num-failures-to-alert", ":", " ", "\"">>
        \o FormatInt(f) \o <<"\"", "\n">>
        \o <<" ", " ", " ", " ", "testgrid-alert-stale-results-hours", ":", " ", "\"">>
        \o FormatInt(st) \o <<"\"", "\n">>

\* vars.AlertAnnotations
AlertAnnotationsOf(f, st) ==
    <<" ", " ", " ", " ", "testgrid-num-failures-to-alert", ":", " ", "\"">>
        \o FormatInt(f) \o <<"\"", "\n">>
        \o <<" ", " ", " ", " ", "testgrid-alert-stale-results-hours", ":", " ", "\"">>
        \o FormatInt(st) \o <<"\"">>

\* mutant: the error is returned without the text
WrapMessage_NoText(eText, text) == eText

\* the message of errors.Wrapf(e, "\n%s\n", text)
WrapMessage(eText, text) == <<"\n">> \o text \o <<"\n">> \o <<": ">> \o eText

\* mutant: the target file is joined whole, not its base name
OutPath_NoBase(s, c) == Join(s.PathTestInfra, c.TestInfraJobSpec.TargetFile)

\* outPath
OutPath(s, c) == Join(s.PathTestInfra, Base(c.TestInfraJobSpec.TargetFile))

\* how much of the data a write that fails may have put into the file
PartialWrites(data) ==
    {SubSeq(data, 1, k) : k \in {0, Len(data) \div 2}}

Logged(op, i) == [op |-> op, idx |-> i]

-----------------------------------------------------------------------------
(* The state when processTestInfra is called *)

Init ==
    \E tmpl \in TemplateRefs, tc \in {File(t) : t \in JobTemplates} \cup {NoFile},
       pat \in FileNamePatterns, jobs \in SeqsUpTo(JobEntries, MaxJobs),
       vers \in {<<28, 28>>, <<28, 29>>},
       tf \in TargetFiles, dir \in OutDirs :
        /\ settings = [PathConfig |-> ConfigPath, PathTestInfra |-> dir,
                       ImageTestInfra |-> <<"kubekins:v1">>]
        /\ cfg = [Name |-> "group",
                  TestInfraJobSpec |-> [Template |-> tmpl, TargetFile |-> tf],
                  KinderWorkflowSpec |-> [TargetFile |-> pat],
                  Jobs |-> jobs]
        /\ oldestVer = vers[1]
        /\ minVer = vers[2]
        /\ fs = InitialFiles(TemplatePath(settings, cfg), tc)
        /\ fs0 = fs
        /\ pc = "start"
        /\ err = "nil"
        /\ errMsg = <<>>
        /\ tPath = EmptyPath
        /\ tBytes = <<>>
        /\ templateJob = <<>>
        /\ templateFileName = <<>>
        /\ str = <<>>
        /\ idx = 0
        /\ vars = ZeroVars
        /\ buf = <<>>
        /\ failures = 0
        /\ staleResults = 0
        /\ log = <<>>

\* return e
Return(e) ==
    /\ pc' = "done"
    /\ err' = e

-----------------------------------------------------------------------------
(* The steps of processTestInfra *)

\* mutant: the empty template reference is not checked
Start_NoEmptyCheck ==
    /\ pc = "start"
    /\ tPath' = TemplatePath(settings, cfg)
    /\ pc' = "read"
    /\ UNCHANGED <<settings, cfg, oldestVer, minVer, fs, fs0, err, errMsg, tBytes,
                   templateJob, templateFileName, str, idx, vars, buf, failures,
                   staleResults, log>>

\* lines 34-47: the empty template reference returns nil at once; else tPath
Start ==
    /\ pc = "start"
    /\ IF cfg.TestInfraJobSpec.Template = EmptyPath
       THEN /\ Return("nil")
            /\ UNCHANGED tPath
       ELSE /\ tPath' = TemplatePath(settings, cfg)
            /\ pc' = "read"
            /\ UNCHANGED err
    /\ UNCHANGED <<settings, cfg, oldestVer, minVer, fs, fs0, errMsg, tBytes,
                   templateJob, templateFileName, str, idx, vars, buf, failures,
                   staleResults, log>>

\* lines 48-51: os.ReadFile(tPath)
ReadTemplate ==
    /\ pc = "read"
    /\ log' = Append(log, Logged("ReadFile", 0))
    /\ IF tPath \in DOMAIN fs /\ fs[tPath].exists
       THEN /\ tBytes' = fs[tPath].data
            /\ pc' = "parseJob"
            /\ UNCHANGED err
       ELSE /\ Return("TemplateReadError")
            /\ UNCHANGED tBytes
    /\ UNCHANGED <<settings, cfg, oldestVer, minVer, fs, fs0, errMsg, tPath,
                   templateJob, templateFileName, str, idx, vars, buf, failures,
                   staleResults>>

\* lines 52-61: parse the job template with the five helper functions
ParseJobTemplate ==
    /\ pc = "parseJob"
    /\ log' = Append(log, Logged("ParseJob", 0))
    /\ LET r == Parse(tBytes, FuncMap) IN
        IF r.ok
        THEN /\ templateJob' = r.nodes
             /\ pc' = "parseFileName"
             /\ UNCHANGED err
        ELSE /\ Return("TemplateParseError")
             /\ UNCHANGED templateJob
    /\ UNCHANGED <<settings, cfg, oldestVer, minVer, fs, fs0, errMsg, tPath, tBytes,
                   templateFileName, str, idx, vars, buf, failures, staleResults>>

\* lines 63-69: parse the file-name pattern without functions; start str
ParseFileName ==
    /\ pc = "parseFileName"
    /\ log' = Append(log, Logged("ParseFileName", 0))
    /\ LET r == Parse(cfg.KinderWorkflowSpec.TargetFile, {}) IN
        IF r.ok
        THEN /\ templateFileName' = r.nodes
             /\ str' = InitialDocument
             /\ idx' = 1
             /\ pc' = "loop"
             /\ UNCHANGED err
        ELSE /\ Return("TemplateParseError")
             /\ UNCHANGED <<templateFileName, str, idx>>
    /\ UNCHANGED <<settings, cfg, oldestVer, minVer, fs, fs0, errMsg, tPath, tBytes,
                   templateJob, vars, buf, failures, staleResults>>

\* lines 71-77: a job the version filter rejects is passed over
SkipJob ==
    /\ pc = "loop"
    /\ idx <= Len(cfg.Jobs)
    /\ skipVersion(oldestVer, minVer, JobVersion(cfg.Jobs[idx]))
    /\ idx' = idx + 1
    /\ UNCHANGED <<settings, cfg, oldestVer, minVer, fs, fs0, pc, err, errMsg, tPath,
                   tBytes, templateJob, templateFileName, str, vars, buf, failures,
                   staleResults, log>>

\* lines 71-111: the variables of a job that is not skipped
ResolveVars ==
    /\ pc = "loop"
    /\ idx <= Len(cfg.Jobs)
    /\ ~skipVersion(oldestVer, minVer, JobVersion(cfg.Jobs[idx]))
    /\ log' = Append(log, Logged("ExecuteFileName", idx))
    /\ LET job == cfg.Jobs[idx]
           v == BaseVars(job, settings, cfg)
           r == Execute(templateFileName, v, <<>>)
       IN
        /\ buf' = r.out
        /\ IF r.ok
           THEN /\ failures' = FailuresOf(job)
                /\ staleResults' = StaleResultsOf(job)
                /\ vars' = [v EXCEPT
                               !.WorkflowFile = WorkflowFileOf(r.out),
                               !.JobInterval = JobIntervalOf(job),
                               !.AlertAnnotations =
                                   AlertAnnotationsOf(FailuresOf(job), StaleResultsOf(job))]
                /\ pc' = "render"
                /\ UNCHANGED err
           ELSE /\ vars' = v
                /\ Return("TemplateExecutionError")
                /\ UNCHANGED <<failures, staleResults>>
    /\ UNCHANGED <<settings, cfg, oldestVer, minVer, fs, fs0, errMsg, tPath, tBytes,
                   templateJob, templateFileName, str, idx>>

\* mutant: buf is not reset before the job is rendered
RenderJob_NoReset ==
    /\ pc = "render"
    /\ log' = Append(log, Logged("ExecuteJob", idx))
    /\ LET r == Execute(templateJob, vars, buf) IN
        /\ buf' = r.out
        /\ IF r.ok
           THEN /\ str' = str \o <<"\n">> \o r.out
                /\ idx' = idx + 1
                /\ pc' = "loop"
                /\ UNCHANGED err
           ELSE /\ Return("TemplateExecutionError")
                /\ UNCHANGED <<str, idx>>
    /\ UNCHANGED <<settings, cfg, oldestVer, minVer, fs, fs0, errMsg, tPath, tBytes,
                   templateJob, templateFileName, vars, failures, staleResults>>

\* lines 113-118: reset buf, render the job, append it to str
RenderJob ==
    /\ pc = "render"
    /\ log' = Append(log, Logged("ExecuteJob", idx))
    /\ LET r == Execute(templateJob, vars, <<>>) IN
        /\ buf' = r.out
        /\ IF r.ok
           THEN /\ str' = str \o <<"\n">> \o r.out
                /\ idx' = idx + 1
                /\ pc' = "loop"
                /\ UNCHANGED err
           ELSE /\ Return("TemplateExecutionError")
                /\ UNCHANGED <<str, idx>>
    /\ UNCHANGED <<settings, cfg, oldestVer, minVer, fs, fs0, errMsg, tPath, tBytes,
                   templateJob, templateFileName, vars, failures, staleResults>>

\* mutant: the result of the validation is ignored
Validate_NoCheck ==
    /\ pc = "loop"
    /\ idx > Len(cfg.Jobs)
    /\ log' = Append(log, Logged("Unmarshal", 0))
    /\ pc' = "write"
    /\ UNCHANGED <<settings, cfg, oldestVer, minVer, fs, fs0, err, errMsg, tPath,
                   tBytes, templateJob, templateFileName, str, idx, vars, buf,
                   failures, staleResults>>

\* lines 121-124: after the last job, validate str
Validate ==
    /\ pc = "loop"
    /\ idx > Len(cfg.Jobs)
    /\ log' = Append(log, Logged("Unmarshal", 0))
    /\ IF YamlUnmarshalOk(str)
       THEN /\ pc' = "write"
            /\ UNCHANGED <<err, errMsg>>
       ELSE /\ Return("ValidationError")
            /\ errMsg' = WrapMessage(yamlErrorText, str)
    /\ UNCHANGED <<settings, cfg, oldestVer, minVer, fs, fs0, tPath, tBytes,
                   templateJob, templateFileName, str, idx, vars, buf, failures,
                   staleResults>>

\* lines 126-129: os.WriteFile opens outPath, creating or truncating it; the
\* open fails on a directory and may fail on any path
WriteOpen ==
    /\ pc = "write"
    /\ log' = Append(log, Logged("WriteFile", 0))
    /\ \/ /\ OutPath(settings, cfg) \in DOMAIN fs
          /\ fs' = [fs EXCEPT ![OutPath(settings, cfg)] = File(<<>>)]
          /\ pc' = "writing"
          /\ UNCHANGED err
       \/ /\ Return("IOError")
          /\ UNCHANGED fs
    /\ UNCHANGED <<settings, cfg, oldestVer, minVer, fs0, errMsg, tPath, tBytes,
                   templateJob, templateFileName, str, idx, vars, buf, failures,
                   staleResults>>

\* lines 129-132: os.WriteFile writes str and closes the file; a write that
\* fails leaves what it had written
WriteData ==
    /\ pc = "writing"
    /\ \/ /\ fs' = [fs EXCEPT ![OutPath(settings, cfg)] = File(str)]
          /\ Return("nil")
       \/ \E part \in PartialWrites(str) :
            /\ fs' = [fs EXCEPT ![OutPath(settings, cfg)] = File(part)]
            /\ Return("IOError")
    /\ UNCHANGED <<settings, cfg, oldestVer, minVer, fs0, errMsg, tPath, tBytes,
                   templateJob, templateFileName, str, idx, vars, buf, failures,
                   staleResults, log>>

Next ==
    \/ Start
    \/ ReadTemplate
    \/ ParseJobTemplate
    \/ ParseFileName
    \/ SkipJob
    \/ ResolveVars
    \/ RenderJob
    \/ Validate
    \/ WriteOpen
    \/ WriteData

Spec == Init /\ [][Next]_allVars

-----------------------------------------------------------------------------
(* What a run is expected to do, stated from the inputs alone *)

TemplateIsEmpty == cfg.TestInfraJobSpec.Template = EmptyPath

\* the job at position i passes the version filter
Kept(i) == ~skipVersion(oldestVer, minVer, cfg.Jobs[i].KubernetesVersion)

KeptJobs == {i \in 1..Len(cfg.Jobs) : Kept(i)}

Succeeded == pc = "done" /\ err = "nil" /\ ~TemplateIsEmpty

LogOps == [k \in 1..Len(log) |-> log[k].op]

\* the resolved place of the template file
GivenTemplatePath ==
    IF cfg.TestInfraJobSpec.Template.abs
    THEN cfg.TestInfraJobSpec.Template
    ELSE Path(FALSE, <<"cfg">> \o cfg.TestInfraJobSpec.Template.comps)

\* the output directory followed by the last element of the target file
GivenOutPath ==
    LET tf == cfg.TestInfraJobSpec.TargetFile.comps IN
    Path(settings.PathTestInfra.abs, settings.PathTestInfra.comps \o <<tf[Len(tf)]>>)

GivenTemplate == fs0[GivenTemplatePath]

GivenJobTemplate == Parse(GivenTemplate.data, FuncMap)

GivenFileNameTemplate == Parse(cfg.KinderWorkflowSpec.TargetFile, {})

\* the file name rendered for one job, from that job alone
NameOf(job, nameT) == Execute(nameT, BaseVars(job, settings, cfg), <<>>)

\* the variable record of one job, from that job alone
VarsOf(job, nameT) ==
    [BaseVars(job, settings, cfg) EXCEPT
        !.WorkflowFile = WorkflowFileOf(NameOf(job, nameT).out),
        !.JobInterval = JobIntervalOf(job),
        !.AlertAnnotations = AlertAnnotationsOf(FailuresOf(job), StaleResultsOf(job))]

\* the block rendered for one job, from that job alone
BlockOf(job, nameT, jobT) == Execute(jobT, VarsOf(job, nameT), <<>>)

RECURSIVE BlocksFrom(_, _, _)
BlocksFrom(i, nameT, jobT) ==
    IF i > Len(cfg.Jobs) THEN <<>>
    ELSE IF Kept(i)
         THEN <<"\n">> \o BlockOf(cfg.Jobs[i], nameT, jobT).out
                  \o BlocksFrom(i + 1, nameT, jobT)
    ELSE BlocksFrom(i + 1, nameT, jobT)

\* header, root key, then the block of every kept job in order
ExpectedDocument ==
    autogeneratedHeader \o <<"\n", "periodics:", "\n">>
        \o BlocksFrom(1, GivenFileNameTemplate.nodes, GivenJobTemplate.nodes)

\* the error the steps before the write end with ("nil" when all succeed)
ExpectedError ==
    IF TemplateIsEmpty THEN "nil"
    ELSE IF ~GivenTemplate.exists THEN "TemplateReadError"
    ELSE
        LET jobT == GivenJobTemplate
            nameT == GivenFileNameTemplate
        IN
        IF ~jobT.ok \/ ~nameT.ok THEN "TemplateParseError"
        ELSE IF \E i \in KeptJobs :
                    \/ ~NameOf(cfg.Jobs[i], nameT.nodes).ok
                    \/ ~BlockOf(cfg.Jobs[i], nameT.nodes, jobT.nodes).ok
             THEN "TemplateExecutionError"
        ELSE IF ~YamlUnmarshalOk(ExpectedDocument) THEN "ValidationError"
        ELSE "nil"

\* the calls that can end a run with each error
FailingOps(e) ==
    CASE e = "TemplateReadError"      -> {"ReadFile"}
      [] e = "TemplateParseError"     -> {"ParseJob", "ParseFileName"}
      [] e = "TemplateExecutionError" -> {"ExecuteFileName", "ExecuteJob"}
      [] e = "ValidationError"        -> {"Unmarshal"}
      [] OTHER                        -> {"WriteFile"}

CountToken(text, tok) == Cardinality({k \in 1..Len(text) : text[k] = tok})

\* the lines of a text: the pieces between its newlines
SplitLines(text) ==
    LET nl == {k \in 1..Len(text) : text[k] = "\n"}
        \* the position of the j-th newline; 0 and Len + 1 close the ends
        at(j) == IF j = 0 THEN 0
                 ELSE IF j > Cardinality(nl) THEN Len(text) + 1
                 ELSE CHOOSE p \in nl : Cardinality({q \in nl : q < p}) = j - 1
    IN [j \in 1..(Cardinality(nl) + 1) |-> SubSeq(text, at(j - 1) + 1, at(j) - 1)]

RECURSIVE Indent(_)
Indent(line) ==
    IF Len(line) > 0 /\ Head(line) = " " THEN 1 + Indent(Tail(line)) ELSE 0

Unquoted(w) == SubSeq(w, 2, Len(w) - 1)

-----------------------------------------------------------------------------
(* Claims *)

\* C1: the output file is written only after the complete document has been
\* validated with success.  A run ends with the first error among reading the
\* template, parsing the two templates, executing them for a kept job and the
\* validation; the failing call is the last call made, the write is never
\* attempted and the file system is as it was.
C1_WriteOnlyAfterValidation ==
    /\ (pc = "done" /\ err # "IOError") => err = ExpectedError
    /\ err = "IOError" => ExpectedError = "nil"
    /\ err # "nil" =>
          /\ pc = "done"
          /\ Len(log) > 0
          /\ log[Len(log)].op \in FailingOps(err)
    /\ err \notin {"nil", "IOError"} =>
          /\ fs = fs0
          /\ "WriteFile" \notin Range(LogOps)
    /\ ("WriteFile" \in Range(LogOps) \/ fs # fs0) =>
          /\ YamlUnmarshalOk(str)
          /\ pc # "done" => ExpectedError = "nil"
          /\ \E k \in 1..Len(log) :
                /\ log[k].op = "Unmarshal"
                /\ \A j \in 1..k : log[j].op # "WriteFile"

\* witness of C1: the job template fails for the second job after the first
\* job was rendered
C1_Witness ==
    /\ err = "TemplateExecutionError"
    /\ Len(log) > 0
    /\ log[Len(log)] = Logged("ExecuteJob", 2)
    /\ Logged("ExecuteJob", 1) \in Range(log)

\* C2 as claimed: whatever the state of the run, every file holds what it
\* held before the call or the complete validated document.
C2_NoPartialFile ==
    \A p \in FilePaths : fs[p] = fs0[p] \/ fs[p] = File(ExpectedDocument)

\* C3: no template is executed for a job the version filter rejects, and the
\* written document has one block for each job that is kept.
C3_SkippedJobsLeaveNoTrace ==
    /\ \A k \in 1..Len(log) :
          log[k].op \in {"ExecuteFileName", "ExecuteJob"} => log[k].idx \in KeptJobs
    /\ Succeeded =>
          /\ \A i \in KeptJobs : Cardinality({k \in 1..Len(log) :
                                     log[k] = Logged("ExecuteJob", i)}) = 1
          /\ CountToken(fs[GivenOutPath].data, "- name: ") = Cardinality(KeptJobs)

\* witness of C3: a written document for two jobs of which the second is skipped
C3_Witness ==
    /\ Succeeded
    /\ Len(cfg.Jobs) = 2
    /\ KeptJobs = {1}

\* C4: the interval and the thresholds of a kept job are "2h", 8, 16 when its
\* Kubernetes or kubeadm version is the sentinel, and "12h", 4, 48 otherwise.
C4_TwoTierPolicy ==
    pc = "render" =>
        LET job == cfg.Jobs[idx] IN
        IF job.KubernetesVersion = "latest" \/ job.KubeadmVersion = "latest"
        THEN vars.JobInterval = <<"2h">> /\ failures = 8 /\ staleResults = 16
        ELSE vars.JobInterval = <<"12h">> /\ failures = 4 /\ staleResults = 48

\* witness of C4: a kept job whose kubelet version alone is the sentinel
C4_Witness ==
    /\ pc = "render"
    /\ cfg.Jobs[idx].KubeletVersion = "latest"
    /\ cfg.Jobs[idx].KubernetesVersion # "latest"
    /\ cfg.Jobs[idx].KubeadmVersion # "latest"

\* C5: with an empty template reference the run makes no call, changes no
\* file and returns nil.
C5_EmptyTemplateIsNoOp ==
    TemplateIsEmpty =>
        /\ pc \in {"start", "done"}
        /\ log = <<>>
        /\ fs = fs0
        /\ err = "nil"
        /\ str = <<>>

\* witness of C5: a finished run of a group with jobs and no template
C5_Witness ==
    /\ TemplateIsEmpty
    /\ pc = "done"
    /\ Len(cfg.Jobs) > 0

\* C6: a document that is not well-formed ends the run with a validation
\* error whose message holds the complete document, and nothing is written.
C6_ValidationErrorCarriesText ==
    /\ (pc = "done" /\ "Unmarshal" \in Range(LogOps) /\ ~YamlUnmarshalOk(str)) =>
          err = "ValidationError"
    /\ err = "ValidationError" =>
          /\ ~YamlUnmarshalOk(str)
          /\ str = ExpectedDocument
          /\ Contains(errMsg, str)
          /\ fs = fs0
          /\ "WriteFile" \notin Range(LogOps)

\* witness of C6: a validation error for a document with two blocks
C6_Witness ==
    /\ err = "ValidationError"
    /\ Cardinality(KeptJobs) = 2

\* C7 as claimed: for a rendered file name ending in ".yaml", WorkflowFile is
\* a name between two double quotes and that name does not end in ".yaml".
C7_Original ==
    (pc = "render" /\ HasSuffix(buf, yamlSuffix)) =>
        LET w == vars.WorkflowFile IN
        /\ Len(w) >= 2
        /\ w[1] = "\"" /\ w[Len(w)] = "\""
        /\ HasPrefix(buf, Unquoted(w))
        /\ ~HasSuffix(Unquoted(w), yamlSuffix)

\* C7 amended: WorkflowFile is the rendered file name without its last
\* ".yaml", between two double quotes; the name between the quotes ends in
\* ".yaml" exactly when the rendered file name ends in ".yaml.yaml".
C7_OneSuffixStripped ==
    (pc = "render" /\ HasSuffix(buf, yamlSuffix)) =>
        LET w == vars.WorkflowFile IN
        /\ Len(w) = Len(buf) - Len(yamlSuffix) + 2
        /\ w[1] = "\"" /\ w[Len(w)] = "\""
        /\ Unquoted(w) = SubSeq(buf, 1, Len(buf) - Len(yamlSuffix))
        /\ (HasSuffix(Unquoted(w), yamlSuffix)
               <=> HasSuffix(buf, yamlSuffix \o yamlSuffix))

\* witness of C7: a rendered file name ending in ".yaml.yaml"
C7_Witness ==
    /\ pc = "render"
    /\ HasSuffix(buf, yamlSuffix \o yamlSuffix)

\* what C8 says of AlertAnnotations, for an indentation of n spaces
AlertBlockIndentedBy(n) ==
    pc = "render" =>
        LET ls == SplitLines(vars.AlertAnnotations) IN
        /\ Len(ls) = 2
        /\ Indent(ls[1]) = n /\ Indent(ls[2]) = n
        /\ SubSeq(ls[1], n + 1, Len(ls[1])) =
              <<"testgrid-num-failures-to-alert", ":", " ", "\"">>
                  \o FormatInt(failures) \o <<"\"">>
        /\ SubSeq(ls[2], n + 1, Len(ls[2])) =
              <<"testgrid-alert-stale-results-hours", ":", " ", "\"">>
                  \o FormatInt(staleResults) \o <<"\"">>

\* C8 as claimed: AlertAnnotations is two lines, each indented by 6 spaces,
\* the failures key then the stale-results key, each with its quoted number,
\* and no newline after the second line.
C8_Original == AlertBlockIndentedBy(6)

\* C8 amended: the same with an indentation of 4 spaces.
C8_FourSpaces == AlertBlockIndentedBy(4)

\* witness of C8: the annotations of a job that tracks the moving release
C8_Witness ==
    /\ pc = "render"
    /\ failures = 8
    /\ staleResults = 16

\* the one file a run that succeeded wrote, and every other file as it was
WroteOnlyOutput ==
    /\ fs[GivenOutPath] = File(ExpectedDocument)
    /\ \A p \in FilePaths \ {GivenOutPath} : fs[p] = fs0[p]
    /\ Cardinality({k \in 1..Len(log) : log[k].op = "WriteFile"}) = 1

\* C9 as claimed: a run that succeeded wrote the file at the output directory
\* joined with the base name of the target file, and left every other file
\* and the template file as they were.
C9_Original ==
    Succeeded => (WroteOnlyOutput /\ fs[GivenTemplatePath] = fs0[GivenTemplatePath])

\* C9 amended: a run that succeeded wrote the file at the output directory
\* joined with the base name of the target file and left every other file as
\* it was; the template file is as it was unless it is that output file.
C9_OnlyOutputWritten ==
    Succeeded =>
        /\ WroteOnlyOutput
        /\ GivenTemplatePath # GivenOutPath =>
              fs[GivenTemplatePath] = fs0[GivenTemplatePath]
        /\ GivenTemplatePath = GivenOutPath =>
              fs[GivenTemplatePath] = File(ExpectedDocument)

\* witness of C9: a run that succeeded and replaced a file that was there
C9_Witness ==
    /\ Succeeded
    /\ fs0[GivenOutPath].exists
    /\ fs0[GivenOutPath] # fs[GivenOutPath]

\* C10: the written document is the header, the root key and, for each kept
\* job in order, a newline and the block rendered from that job alone.
C10_DocumentIsBlocksInOrder ==
    /\ pc \in {"write", "writing"} => str = ExpectedDocument
    /\ Succeeded => fs[GivenOutPath].data = ExpectedDocument
    /\ (Succeeded /\ KeptJobs = {}) =>
          fs[GivenOutPath].data = autogeneratedHeader \o <<"\n", "periodics:", "\n">>

\* witness of C10: a written document of two blocks
C10_Witness ==
    /\ Succeeded
    /\ Cardinality(KeptJobs) = 2
    /\ cfg.Jobs[1] # cfg.Jobs[2]

====
